---- MODULE Spec2Model ----
(***************************************************************************)
(* Model of graphql/client.go: the Twitch GraphQL query client.            *)
(*                                                                         *)
(* Every public method of Client is an operator that maps its arguments    *)
(* and the answer of the transport (what graphql.Query decoded into the    *)
(* query descriptor, and the error it returned) to the calls it makes on   *)
(* the transport and to what it returns.  The state machine runs one       *)
(* invocation at a time through its steps (call, HTTP round trip, answer,  *)
(* return) while another goroutine may call SetBearer between any two.     *)
(***************************************************************************)
EXTENDS Integers, Sequences, FiniteSets, TLC

\* ------------------------------------------------------------------ bounds

\* Longest identifier list handed to a bulk lookup.
MaxListLen == 102
\* Largest and smallest page size handed to a paginated listing.
MaxFirstInput == 102
MinFirstInput == 2

\* ------------------------------------------------------- program constants

\* len(ids) > 100
MaxIdentifiers == 100
\* opts.First < 1 || opts.First > 100
MinPage == 1
MaxPage == 100
\* opts.First = 25
DefaultFirst == 25

\* ------------------------------------------------------------------ values

NilErr == "nil"
ErrTokenNotSet == "ErrTokenNotSet"
ErrTooManyArguments == "ErrTooManyArguments"
ErrInvalidArgument == "ErrInvalidArgument"
TransportErrors == {"ErrNetwork", "ErrGraphQL"}

\* A graphql.ID is an interface{}: nil, a string or a number.
NilID == [kind |-> "nil", str |-> "", num |-> 0]
StrID(s) == [kind |-> "string", str |-> s, num |-> 0]
IntID(n) == [kind |-> "int", str |-> "", num |-> n]
AbsentID == [kind |-> "absent", str |-> "", num |-> 0]
IDs == {NilID, StrID(""), StrID("u1"), IntID(0), IntID(42)}

Digit(d) ==
    CASE d = 0 -> "0" [] d = 1 -> "1" [] d = 2 -> "2" [] d = 3 -> "3"
      [] d = 4 -> "4" [] d = 5 -> "5" [] d = 6 -> "6" [] d = 7 -> "7"
      [] d = 8 -> "8" [] d = 9 -> "9"

RECURSIVE Itoa(_)
Itoa(n) == IF n < 10 THEN Digit(n) ELSE Itoa(n \div 10) \o Digit(n % 10)

\* fmt.Sprint(id)
Sprint(id) ==
    CASE id.kind = "nil" -> "<nil>"
      [] id.kind = "string" -> id.str
      [] id.kind = "int" -> IF id.num < 0 THEN "-" \o Itoa(0 - id.num) ELSE Itoa(id.num)

\* graphql.Int(x): conversion of an int to int32.  It keeps every value from
\* -2^31 to 2^31 - 1, which are all the integers the model checker represents
\* (the clamp before it leaves only 1 .. 100 anyway).
Int32(x) == IF x >= 0 - 2147483647 /\ x <= 2147483647 THEN x ELSE 0 - 2147483647 - 1

Tokens == {"", "tokenA"}
Cursors == {"", "cur1"}
Options == {"", "opt1"}
Names == {"", "bob"}
Firsts ==
    ((0 - MinFirstInput) .. MinPage + 1)
        \cup (DefaultFirst - 1 .. DefaultFirst + 1)
        \cup (MaxPage - 1 .. MaxFirstInput)
ListLens == (0 .. 1) \cup (MaxIdentifiers - 1 .. MaxListLen)
Idents(n) == [i \in 1 .. n |-> "x"]

NoList == [type |-> "none", items |-> <<>>]
\* toIDs(ids...): the identifiers as a list of graphql.ID
toIDs(ids) == [type |-> "ID", items |-> ids]
\* toStrings(names...): the identifiers as a list of graphql.String
toStrings(names) == [type |-> "String", items |-> names]

\* The variable mapping of a query: the keys it holds and their values.
NoVars ==
    [keys |-> {}, id |-> AbsentID, first |-> 0, after |-> "", options |-> "",
     list |-> NoList, name |-> ""]

\* What the transport leaves in the query descriptor, and the error it returns.
\* data is the descriptor's top-level field ("nil" when nothing was decoded),
\* nested the connection inside it.
Response(err, data, nested) == [err |-> err, data |-> data, nested |-> nested]
NoResponse == Response(NilErr, "nil", "nil")
Responses ==
    {Response(e, d, n) : e \in {NilErr} \cup TransportErrors,
                         d \in {"nil", "obj"}, n \in {"nil", "page"}}
        \ {Response(e, "nil", "page") : e \in {NilErr} \cup TransportErrors}
BoolResponses ==
    {Response(e, d, "nil") : e \in {NilErr} \cup TransportErrors, d \in {"false", "true"}}

\* What an invocation does: the calls it made on the transport, and either the
\* pair it returned or a nil-pointer panic.
Returned(calls, result, err) ==
    [calls |-> calls, result |-> result, err |-> err, panicked |-> FALSE]
Panicked(calls) ==
    [calls |-> calls, result |-> "none", err |-> "none", panicked |-> TRUE]

\* --------------------------------------------------------------- operations

\* One call on the transport: graphql.Query or graphql.Mutate with a query
\* descriptor and a variable mapping.
TransportCall(kind, query, vars) == [kind |-> kind, query |-> query, vars |-> vars]

\* CustomQuery: one graphql.Query call; the descriptor as the transport left
\* it and the transport's error.
CustomQuery(query, vars, t) ==
    [calls |-> <<TransportCall("query", query, vars)>>,
     Data |-> t.data, Nested |-> t.nested, err |-> t.err]

\* CustomMutation: one graphql.Mutate call.
CustomMutation(mutation, vars, t) ==
    [calls |-> <<TransportCall("mutation", mutation, vars)>>,
     Data |-> t.data, Nested |-> t.nested, err |-> t.err]

IsUsernameAvailable(username, t) ==
    LET vars == [NoVars EXCEPT !.keys = {"username"}, !.name = username]
        q == CustomQuery("GQLUsernameAvailabilityQuery", vars, t)
    IN  Returned(q.calls, q.Data, q.err)

\* GetCurrentUser without its token guard.
GetCurrentUserNoGuard(client, t) ==
    LET q == CustomQuery("GQLCurrentUserQuery", NoVars, t)
    IN  Returned(q.calls, q.Data, q.err)

GetCurrentUser(client, t) ==
    IF Len(client.bearer) < 1
    THEN Returned(<<>>, "nil", ErrTokenNotSet)
    ELSE LET q == CustomQuery("GQLCurrentUserQuery", NoVars, t)
         IN  Returned(q.calls, q.Data, q.err)

GetUsersByID(ids, t) ==
    IF Len(ids) > MaxIdentifiers
    THEN Returned(<<>>, "empty", ErrTooManyArguments)
    ELSE LET vars == [NoVars EXCEPT !.keys = {"ids"}, !.list = toIDs(ids)]
             q == CustomQuery("GQLUserIDsQuery", vars, t)
         IN  Returned(q.calls, q.Data, q.err)

GetUsersByLogin(logins, t) ==
    IF Len(logins) > MaxIdentifiers
    THEN Returned(<<>>, "empty", ErrTooManyArguments)
    ELSE LET vars == [NoVars EXCEPT !.keys = {"logins"}, !.list = toStrings(logins)]
             q == CustomQuery("GQLUserLoginsQuery", vars, t)
         IN  Returned(q.calls, q.Data, q.err)

GetChannelsByID(ids, t) ==
    IF Len(ids) > MaxIdentifiers
    THEN Returned(<<>>, "empty", ErrTooManyArguments)
    ELSE LET vars == [NoVars EXCEPT !.keys = {"ids"}, !.list = toIDs(ids)]
             q == CustomQuery("GQLChannelIDsQuery", vars, t)
         IN  Returned(q.calls, q.Data, q.err)

\* GetChannelsByName with the limit off by one (>= for >).
GetChannelsByNameOffByOne(names, t) ==
    IF Len(names) >= MaxIdentifiers
    THEN Returned(<<>>, "empty", ErrTooManyArguments)
    ELSE LET vars == [NoVars EXCEPT !.keys = {"names"}, !.list = toStrings(names)]
             q == CustomQuery("GQLChannelNamesQuery", vars, t)
         IN  Returned(q.calls, q.Data, q.err)

GetChannelsByName(names, t) ==
    IF Len(names) > MaxIdentifiers
    THEN Returned(<<>>, "empty", ErrTooManyArguments)
    ELSE LET vars == [NoVars EXCEPT !.keys = {"names"}, !.list = toStrings(names)]
             q == CustomQuery("GQLChannelNamesQuery", vars, t)
         IN  Returned(q.calls, q.Data, q.err)

GetStreams(opts, t) ==
    LET First == IF opts.First < MinPage \/ opts.First > MaxPage
                 THEN DefaultFirst ELSE opts.First
        vars == [NoVars EXCEPT !.keys = {"first", "after", "options"},
                               !.first = Int32(First), !.after = opts.After,
                               !.options = opts.Options]
        q == CustomQuery("GQLStreamsQuery", vars, t)
    IN  Returned(q.calls, q.Data, q.err)

GetVideos(opts, t) ==
    LET First == IF opts.First < MinPage \/ opts.First > MaxPage
                 THEN DefaultFirst ELSE opts.First
        vars == [NoVars EXCEPT !.keys = {"first", "after"},
                               !.first = Int32(First), !.after = opts.After]
        q == CustomQuery("GQLVideosQuery", vars, t)
    IN  Returned(q.calls, q.Data, q.err)

GetVideosByUser(user, opts, t) ==
    LET First == IF opts.First < MinPage \/ opts.First > MaxPage
                 THEN DefaultFirst ELSE opts.First
        vars == [NoVars EXCEPT !.keys = {"id", "first", "after"}, !.id = user.ID,
                               !.first = Int32(First), !.after = opts.After]
        q == CustomQuery("GQLUserVideosQuery", vars, t)
    IN  IF q.Data = "nil"
        THEN Returned(q.calls, "nil", q.err)
        ELSE Returned(q.calls, q.Nested, q.err)

\* GetVideosByChannel losing the cursor of the options on the way.
GetVideosByChannelDropsCursor(channel, opts, t) ==
    GetVideosByUser([ID |-> channel.ID], [opts EXCEPT !.After = ""], t)

GetVideosByChannel(channel, opts, t) ==
    GetVideosByUser([ID |-> channel.ID], opts, t)

GetClipBySlug(slug, t) ==
    LET vars == [NoVars EXCEPT !.keys = {"slug"}, !.name = slug]
        q == CustomQuery("GQLClipQuery", vars, t)
    IN  Returned(q.calls, q.Data, q.err)

\* GetGames with the lower limit off by one (First < 0 for First < 1).
GetGamesZeroFirst(opts, t) ==
    LET First == IF opts.First < MinPage - 1 \/ opts.First > MaxPage
                 THEN DefaultFirst ELSE opts.First
        vars == [NoVars EXCEPT !.keys = {"first", "after", "options"},
                               !.first = Int32(First), !.after = opts.After,
                               !.options = opts.Options]
        q == CustomQuery("GQLGamesQuery", vars, t)
    IN  Returned(q.calls, q.Data, q.err)

GetGames(opts, t) ==
    LET First == IF opts.First < MinPage \/ opts.First > MaxPage
                 THEN DefaultFirst ELSE opts.First
        vars == [NoVars EXCEPT !.keys = {"first", "after", "options"},
                               !.first = Int32(First), !.after = opts.After,
                               !.options = opts.Options]
        q == CustomQuery("GQLGamesQuery", vars, t)
    IN  Returned(q.calls, q.Data, q.err)

GetFollowersForUser(user, opts, t) ==
    IF user.ID = NilID \/ Len(Sprint(user.ID)) < 1
    THEN Returned(<<>>, "nil", ErrInvalidArgument)
    ELSE LET First == IF opts.First < MinPage \/ opts.First > MaxPage
                      THEN DefaultFirst ELSE opts.First
             vars == [NoVars EXCEPT !.keys = {"id", "first", "after"}, !.id = user.ID,
                                    !.first = Int32(First), !.after = opts.After]
             q == CustomQuery("GQLFollowersQuery", vars, t)
         IN  IF q.Data = "nil"
             THEN Returned(q.calls, "nil", q.err)
             ELSE Returned(q.calls, q.Nested, q.err)

\* GetFollowersForChannel reading the followers of a nil payload.
GetFollowersForChannelNoNilCheck(channel, opts, t) ==
    IF channel.ID = NilID \/ Len(Sprint(channel.ID)) < 1
    THEN Returned(<<>>, "nil", ErrInvalidArgument)
    ELSE LET First == IF opts.First < MinPage \/ opts.First > MaxPage
                      THEN DefaultFirst ELSE opts.First
             vars == [NoVars EXCEPT !.keys = {"id", "first", "after"}, !.id = channel.ID,
                                    !.first = Int32(First), !.after = opts.After]
             q == CustomQuery("GQLFollowersQuery", vars, t)
         IN  IF q.Data = "nil"
             THEN Panicked(q.calls)
             ELSE Returned(q.calls, q.Nested, q.err)

GetFollowersForChannel(channel, opts, t) ==
    IF channel.ID = NilID \/ Len(Sprint(channel.ID)) < 1
    THEN Returned(<<>>, "nil", ErrInvalidArgument)
    ELSE LET First == IF opts.First < MinPage \/ opts.First > MaxPage
                      THEN DefaultFirst ELSE opts.First
             vars == [NoVars EXCEPT !.keys = {"id", "first", "after"}, !.id = channel.ID,
                                    !.first = Int32(First), !.after = opts.After]
             q == CustomQuery("GQLFollowersQuery", vars, t)
         IN  IF q.Data = "nil"
             THEN Returned(q.calls, "nil", q.err)
             ELSE Returned(q.calls, q.Nested, q.err)

\* GetModsForUser with the nil check of the followers and videos queries.
GetModsForUserNilChecked(user, opts, t) ==
    IF user.ID = NilID \/ Len(Sprint(user.ID)) < 1
    THEN Returned(<<>>, "nil", ErrInvalidArgument)
    ELSE LET First == IF opts.First < MinPage \/ opts.First > MaxPage
                      THEN DefaultFirst ELSE opts.First
             vars == [NoVars EXCEPT !.keys = {"id", "first", "after"}, !.id = user.ID,
                                    !.first = Int32(First), !.after = opts.After]
             q == CustomQuery("GQLModsQuery", vars, t)
         IN  IF q.Data = "nil"
             THEN Returned(q.calls, "nil", q.err)
             ELSE Returned(q.calls, q.Nested, q.err)

\* query.Data.Mods is read with no nil check: a nil Data is a nil-pointer
\* dereference.
GetModsForUser(user, opts, t) ==
    IF user.ID = NilID \/ Len(Sprint(user.ID)) < 1
    THEN Returned(<<>>, "nil", ErrInvalidArgument)
    ELSE LET First == IF opts.First < MinPage \/ opts.First > MaxPage
                      THEN DefaultFirst ELSE opts.First
             vars == [NoVars EXCEPT !.keys = {"id", "first", "after"}, !.id = user.ID,
                                    !.first = Int32(First), !.after = opts.After]
             q == CustomQuery("GQLModsQuery", vars, t)
         IN  IF q.Data = "nil"
             THEN Panicked(q.calls)
             ELSE Returned(q.calls, q.Nested, q.err)

\* GetVIPsForUser rejecting a nil ID only, not one that prints as "".
GetVIPsForUserNilOnly(user, opts, t) ==
    IF user.ID = NilID
    THEN Returned(<<>>, "nil", ErrInvalidArgument)
    ELSE LET First == IF opts.First < MinPage \/ opts.First > MaxPage
                      THEN DefaultFirst ELSE opts.First
             vars == [NoVars EXCEPT !.keys = {"id", "first", "after"}, !.id = user.ID,
                                    !.first = Int32(First), !.after = opts.After]
             q == CustomQuery("GQLVIPsQuery", vars, t)
         IN  IF q.Data = "nil"
             THEN Panicked(q.calls)
             ELSE Returned(q.calls, q.Nested, q.err)

\* query.Data.VIPs is read with no nil check.
GetVIPsForUser(user, opts, t) ==
    IF user.ID = NilID \/ Len(Sprint(user.ID)) < 1
    THEN Returned(<<>>, "nil", ErrInvalidArgument)
    ELSE LET First == IF opts.First < MinPage \/ opts.First > MaxPage
                      THEN DefaultFirst ELSE opts.First
             vars == [NoVars EXCEPT !.keys = {"id", "first", "after"}, !.id = user.ID,
                                    !.first = Int32(First), !.after = opts.After]
             q == CustomQuery("GQLVIPsQuery", vars, t)
         IN  IF q.Data = "nil"
             THEN Panicked(q.calls)
             ELSE Returned(q.calls, q.Nested, q.err)

GetModsForChannel(channel, opts, t) ==
    GetModsForUser([ID |-> channel.ID], opts, t)

\* GetVIPsForChannel delegating to the moderators query.
GetVIPsForChannelAsMods(channel, opts, t) ==
    GetModsForUser([ID |-> channel.ID], opts, t)

GetVIPsForChannel(channel, opts, t) ==
    GetVIPsForUser([ID |-> channel.ID], opts, t)

\* ------------------------------------------------------------ state machine

VARIABLES
    bearer,   \* client.bearer, the field every goroutine shares
    lastSet,  \* the token of the last SetBearer call ("" when there was none)
    pc,       \* where the invocation stands: idle, query, sent, returned, panicked
    inv,      \* the invocation: the method, its arguments, its copy of the receiver
    calls,    \* the calls the invocation made on the transport
    auth,     \* the bearer token the HTTP round trip put on the request
    resp,     \* what the transport answered
    ret       \* what the invocation returned

vars == <<bearer, lastSet, pc, inv, calls, auth, resp, ret>>

DefaultOpts == [First |-> 0, After |-> "", Options |-> ""]
NoInv ==
    [op |-> "none", client |-> [bearer |-> ""], id |-> AbsentID, opts |-> DefaultOpts,
     list |-> <<>>, name |-> ""]
NoRet == [calls |-> <<>>, result |-> "none", err |-> "none", panicked |-> FALSE]

NestedOps ==
    {"GetVideosByUser", "GetVideosByChannel", "GetFollowersForUser",
     "GetFollowersForChannel", "GetModsForUser", "GetModsForChannel",
     "GetVIPsForUser", "GetVIPsForChannel"}

\* The answers the transport can give to the query of an operation.
ResponsesFor(op) ==
    IF op = "IsUsernameAvailable" THEN BoolResponses
    ELSE IF op \in NestedOps THEN Responses
    ELSE {r \in Responses : r.nested = "nil"}

\* The method of the invocation, applied to its arguments and to the
\* transport's answer.
Invoke(i, t) ==
    CASE i.op = "CustomQuery" ->
           LET q == CustomQuery(i.name, NoVars, t) IN Returned(q.calls, q.Data, q.err)
      [] i.op = "CustomMutation" ->
           LET q == CustomMutation(i.name, NoVars, t) IN Returned(q.calls, q.Data, q.err)
      [] i.op = "IsUsernameAvailable" -> IsUsernameAvailable(i.name, t)
      [] i.op = "GetCurrentUser" -> GetCurrentUser(i.client, t)
      [] i.op = "GetUsersByID" -> GetUsersByID(i.list, t)
      [] i.op = "GetUsersByLogin" -> GetUsersByLogin(i.list, t)
      [] i.op = "GetChannelsByID" -> GetChannelsByID(i.list, t)
      [] i.op = "GetChannelsByName" -> GetChannelsByName(i.list, t)
      [] i.op = "GetStreams" -> GetStreams(i.opts, t)
      [] i.op = "GetVideos" -> GetVideos(i.opts, t)
      [] i.op = "GetVideosByChannel" -> GetVideosByChannel([ID |-> i.id], i.opts, t)
      [] i.op = "GetVideosByUser" -> GetVideosByUser([ID |-> i.id], i.opts, t)
      [] i.op = "GetClipBySlug" -> GetClipBySlug(i.name, t)
      [] i.op = "GetGames" -> GetGames(i.opts, t)
      [] i.op = "GetFollowersForUser" -> GetFollowersForUser([ID |-> i.id], i.opts, t)
      [] i.op = "GetFollowersForChannel" ->
           GetFollowersForChannel([ID |-> i.id], i.opts, t)
      [] i.op = "GetModsForChannel" -> GetModsForChannel([ID |-> i.id], i.opts, t)
      [] i.op = "GetVIPsForChannel" -> GetVIPsForChannel([ID |-> i.id], i.opts, t)
      [] i.op = "GetModsForUser" -> GetModsForUser([ID |-> i.id], i.opts, t)
      [] i.op = "GetVIPsForUser" -> GetVIPsForUser([ID |-> i.id], i.opts, t)

Init ==
    /\ bearer = ""
    /\ lastSet = ""
    /\ pc = "idle"
    /\ inv = NoInv
    /\ calls = <<>>
    /\ auth = <<>>
    /\ resp = NoResponse
    /\ ret = NoRet

\* The token SetBearer stores for an argument.
StoredToken(token) == token

\* SetBearer, from any goroutine, at any point of an invocation in flight.
SetBearer ==
    /\ pc # "panicked"
    /\ \E token \in Tokens :
          /\ bearer' = StoredToken(token)
          /\ lastSet' = token
    /\ UNCHANGED <<pc, inv, calls, auth, resp, ret>>

\* A method is called by an idle caller: the receiver is copied (the methods have value
\* receivers), the arguments are validated and, unless validation fails, the
\* variables are built and handed to the transport.
Start(op, id, opts, list, name) ==
    /\ LET i == [op |-> op, client |-> [bearer |-> bearer], id |-> id, opts |-> opts,
                 list |-> list, name |-> name]
           o == Invoke(i, NoResponse)
       IN  /\ inv' = i
           /\ calls' = o.calls
           /\ IF o.calls = <<>>
              THEN pc' = "returned" /\ ret' = o
              ELSE pc' = "query" /\ ret' = NoRet
    /\ auth' = <<>>
    /\ resp' = NoResponse
    /\ UNCHANGED <<bearer, lastSet>>

PageOpts == [First : Firsts, After : Cursors, Options : {""}]
FilterOpts == [First : Firsts, After : Cursors, Options : Options]

CallCustomQuery ==
    /\ pc = "idle"
    /\ \E n \in Names : Start("CustomQuery", AbsentID, DefaultOpts, <<>>, n)

CallCustomMutation ==
    /\ pc = "idle"
    /\ \E n \in Names : Start("CustomMutation", AbsentID, DefaultOpts, <<>>, n)

CallIsUsernameAvailable ==
    /\ pc = "idle"
    /\ \E n \in Names : Start("IsUsernameAvailable", AbsentID, DefaultOpts, <<>>, n)

CallGetCurrentUser ==
    /\ pc = "idle"
    /\ Start("GetCurrentUser", AbsentID, DefaultOpts, <<>>, "")

CallGetUsersByID ==
    /\ pc = "idle"
    /\ \E n \in ListLens : Start("GetUsersByID", AbsentID, DefaultOpts, Idents(n), "")

CallGetUsersByLogin ==
    /\ pc = "idle"
    /\ \E n \in ListLens : Start("GetUsersByLogin", AbsentID, DefaultOpts, Idents(n), "")

CallGetChannelsByID ==
    /\ pc = "idle"
    /\ \E n \in ListLens : Start("GetChannelsByID", AbsentID, DefaultOpts, Idents(n), "")

CallGetChannelsByName ==
    /\ pc = "idle"
    /\ \E n \in ListLens : Start("GetChannelsByName", AbsentID, DefaultOpts, Idents(n), "")

CallGetStreams ==
    /\ pc = "idle"
    /\ \E o \in FilterOpts : Start("GetStreams", AbsentID, o, <<>>, "")

CallGetVideos ==
    /\ pc = "idle"
    /\ \E o \in PageOpts : Start("GetVideos", AbsentID, o, <<>>, "")

CallGetVideosByChannel ==
    /\ pc = "idle"
    /\ \E id \in IDs, o \in PageOpts : Start("GetVideosByChannel", id, o, <<>>, "")

CallGetVideosByUser ==
    /\ pc = "idle"
    /\ \E id \in IDs, o \in PageOpts : Start("GetVideosByUser", id, o, <<>>, "")

CallGetClipBySlug ==
    /\ pc = "idle"
    /\ \E n \in Names : Start("GetClipBySlug", AbsentID, DefaultOpts, <<>>, n)

CallGetGames ==
    /\ pc = "idle"
    /\ \E o \in FilterOpts : Start("GetGames", AbsentID, o, <<>>, "")

CallGetFollowersForUser ==
    /\ pc = "idle"
    /\ \E id \in IDs, o \in PageOpts : Start("GetFollowersForUser", id, o, <<>>, "")

CallGetFollowersForChannel ==
    /\ pc = "idle"
    /\ \E id \in IDs, o \in PageOpts : Start("GetFollowersForChannel", id, o, <<>>, "")

CallGetModsForChannel ==
    /\ pc = "idle"
    /\ \E id \in IDs, o \in PageOpts : Start("GetModsForChannel", id, o, <<>>, "")

CallGetVIPsForChannel ==
    /\ pc = "idle"
    /\ \E id \in IDs, o \in PageOpts : Start("GetVIPsForChannel", id, o, <<>>, "")

CallGetModsForUser ==
    /\ pc = "idle"
    /\ \E id \in IDs, o \in PageOpts : Start("GetModsForUser", id, o, <<>>, "")

CallGetVIPsForUser ==
    /\ pc = "idle"
    /\ \E id \in IDs, o \in PageOpts : Start("GetVIPsForUser", id, o, <<>>, "")

\* The bearer token the transport puts on a request: httpTransport holds the
\* pointer New gave it, so it reads the shared field when the request leaves.
RequestBearer(shared, copied) == shared

\* The HTTP round trip of the call in flight.
RoundTrip ==
    /\ pc = "query"
    /\ auth' = <<RequestBearer(bearer, inv.client.bearer)>>
    /\ pc' = "sent"
    /\ UNCHANGED <<bearer, lastSet, inv, calls, resp, ret>>

\* The transport answers; the method maps the answer and returns, or panics.
Respond ==
    /\ pc = "sent"
    /\ \E t \in ResponsesFor(inv.op) :
          LET o == Invoke(inv, t)
          IN  /\ resp' = t
              /\ ret' = o
              /\ calls' = o.calls
              /\ pc' = IF o.panicked THEN "panicked" ELSE "returned"
    /\ UNCHANGED <<bearer, lastSet, inv, auth>>

\* The caller has its answer; the client is ready for the next invocation.
Return ==
    /\ pc = "returned"
    /\ pc' = "idle"
    /\ inv' = NoInv
    /\ calls' = <<>>
    /\ auth' = <<>>
    /\ resp' = NoResponse
    /\ ret' = NoRet
    /\ UNCHANGED <<bearer, lastSet>>

Next ==
    \/ SetBearer
    \/ CallCustomQuery
    \/ CallCustomMutation
    \/ CallIsUsernameAvailable
    \/ CallGetCurrentUser
    \/ CallGetUsersByID
    \/ CallGetUsersByLogin
    \/ CallGetChannelsByID
    \/ CallGetChannelsByName
    \/ CallGetStreams
    \/ CallGetVideos
    \/ CallGetVideosByChannel
    \/ CallGetVideosByUser
    \/ CallGetClipBySlug
    \/ CallGetGames
    \/ CallGetFollowersForUser
    \/ CallGetFollowersForChannel
    \/ CallGetModsForChannel
    \/ CallGetVIPsForChannel
    \/ CallGetModsForUser
    \/ CallGetVIPsForUser
    \/ RoundTrip
    \/ Respond
    \/ Return

Spec == Init /\ [][Next]_vars

\* -------------------------------------------------------------- properties

BulkOps == {"GetUsersByID", "GetUsersByLogin", "GetChannelsByID", "GetChannelsByName"}
PagedOps ==
    {"GetStreams", "GetVideos", "GetVideosByUser", "GetGames", "GetFollowersForUser",
     "GetFollowersForChannel", "GetModsForUser", "GetVIPsForUser"}
SubjectCheckedOps ==
    {"GetFollowersForUser", "GetFollowersForChannel", "GetModsForUser", "GetVIPsForUser"}
NilCheckedOps ==
    {"GetVideosByUser", "GetVideosByChannel", "GetFollowersForUser",
     "GetFollowersForChannel"}
ModVipOps == {"GetModsForUser", "GetVIPsForUser", "GetModsForChannel", "GetVIPsForChannel"}

\* The invocation is over: it returned or it panicked.
Over == pc \in {"returned", "panicked"}
\* An ID that is nil or prints as the empty string.
EmptyID(id) == id.kind = "nil" \/ (id.kind = "string" /\ id.str = "")
\* The page size the transport is to see for a given opts.First.
EffectiveFirst(f) == IF f >= 1 /\ f <= 100 THEN f ELSE 25
\* The invocation ended on a validation error, before any transport call.
Rejected(result, err) ==
    /\ pc = "returned"
    /\ ret = Returned(<<>>, result, err)
    /\ calls = <<>>
    /\ auth = <<>>
\* The variables of a subject's paginated query.
SubjectVars(id, opts) ==
    [NoVars EXCEPT !.keys = {"id", "first", "after"}, !.id = id,
                   !.first = EffectiveFirst(opts.First), !.after = opts.After]

\* C1: a bulk lookup with more than 100 identifiers returns TooManyArguments
\* without any transport call; with 100 or fewer (0 and 100 included) it is not
\* rejected and goes to the transport.
C1_BulkLimit ==
    inv.op \in BulkOps =>
        IF Len(inv.list) > 100
        THEN Rejected("empty", ErrTooManyArguments)
        ELSE /\ pc \in {"query", "sent", "returned"}
             /\ Len(calls) = 1
             /\ calls[1].vars.list.items = inv.list
             /\ pc = "returned" => ret.err = resp.err

C1_Witness ==
    /\ inv.op = "GetChannelsByName"
    /\ Len(inv.list) = 101
    /\ pc = "returned"
    /\ ret.err = ErrTooManyArguments

\* C2: a paginated listing sends first = 25 when opts.First is outside 1..100
\* and opts.First itself when it is inside; opts.First never makes it fail (the
\* only call it does not send is the one of an empty subject ID).
C2_FirstClamp ==
    inv.op \in PagedOps =>
        /\ calls = <<>> =>
              /\ inv.op \in SubjectCheckedOps
              /\ EmptyID(inv.id)
              /\ ret.err = ErrInvalidArgument
        /\ calls # <<>> =>
              /\ Len(calls) = 1
              /\ "first" \in calls[1].vars.keys
              /\ calls[1].vars.first = EffectiveFirst(inv.opts.First)
        /\ (pc = "returned" /\ calls # <<>>) => ret.err = resp.err

C2_Witness ==
    /\ inv.op = "GetGames"
    /\ inv.opts.First = 0
    /\ pc = "sent"
    /\ calls[1].vars.first = 25

\* C3: a GetCurrentUser call returns TokenNotSet with a nil user and no
\* transport call exactly when no SetBearer has run or the last one stored "";
\* otherwise it goes to the transport.
C3_TokenGuard ==
    [][(pc = "idle" /\ inv'.op = "GetCurrentUser") =>
          IF lastSet = ""
          THEN /\ pc' = "returned"
               /\ ret' = Returned(<<>>, "nil", ErrTokenNotSet)
               /\ calls' = <<>>
               /\ auth' = <<>>
          ELSE /\ pc' = "query"
               /\ Len(calls') = 1
               /\ calls'[1].query = "GQLCurrentUserQuery"]_vars

C3_Witness ==
    /\ inv.op = "GetCurrentUser"
    /\ lastSet = "tokenA"
    /\ inv.client.bearer = "tokenA"
    /\ pc = "sent"

\* C4: GetFollowersForUser, GetModsForUser and GetVIPsForUser return
\* InvalidArgument with a nil result and no transport call for a nil or empty
\* ID, whatever the options; for any other ID they call the transport with
\* exactly that ID as the id variable.
C4_SubjectID ==
    inv.op \in {"GetFollowersForUser", "GetModsForUser", "GetVIPsForUser"} =>
        IF EmptyID(inv.id)
        THEN Rejected("nil", ErrInvalidArgument)
        ELSE /\ Len(calls) = 1
             /\ "id" \in calls[1].vars.keys
             /\ calls[1].vars.id = inv.id

C4_Witness ==
    /\ inv.op = "GetVIPsForUser"
    /\ inv.id = StrID("")
    /\ inv.opts.First = 101
    /\ pc = "returned"
    /\ ret.err = ErrInvalidArgument

\* C5: GetVideosByChannel makes the transport call of GetVideosByUser for the
\* channel's ID (the user videos query with the same id, first and after) and
\* returns what GetVideosByUser returns for the same answer.
C5_VideosByChannel ==
    inv.op = "GetVideosByChannel" =>
        /\ calls = GetVideosByUser([ID |-> inv.id], inv.opts, resp).calls
        /\ calls = <<TransportCall("query", "GQLUserVideosQuery",
                                   SubjectVars(inv.id, inv.opts))>>
        /\ Over => ret = GetVideosByUser([ID |-> inv.id], inv.opts, resp)

C5_Witness ==
    /\ inv.op = "GetVideosByChannel"
    /\ inv.opts.After = "cur1"
    /\ pc = "returned"
    /\ ret.result = "page"

\* C6: the videos and followers queries never panic; with a nil outer payload
\* they return nil and the transport's error, with a payload they return its
\* connection and the transport's error.
C6_NilPayload ==
    inv.op \in NilCheckedOps =>
        /\ pc # "panicked"
        /\ (pc = "returned" /\ calls # <<>>) =>
              /\ ~ret.panicked
              /\ ret.err = resp.err
              /\ ret.result = IF resp.data = "nil" THEN "nil" ELSE resp.nested

C6_Witness ==
    /\ inv.op = "GetFollowersForChannel"
    /\ pc = "returned"
    /\ resp = Response("ErrNetwork", "nil", "nil")
    /\ ret = Returned(calls, "nil", "ErrNetwork")
    /\ Len(calls) = 1

\* C7: an invocation makes at most one transport call, and when that call
\* fails the caller gets the transport's error itself.
C7_TransportErrorSurfaced ==
    Over =>
        /\ Len(calls) <= 1
        /\ (calls # <<>> /\ resp.err # NilErr) =>
              /\ ~ret.panicked
              /\ ret.err = resp.err

\* C8: the request of an invocation carries the bearer token stored when the
\* invocation started, and a GetCurrentUser request never carries an empty one.
C8_BearerAtStart ==
    auth # <<>> =>
        /\ auth = <<inv.client.bearer>>
        /\ inv.op = "GetCurrentUser" => auth[1] # ""

\* C9: GetModsForChannel and GetVIPsForChannel do what GetModsForUser and
\* GetVIPsForUser do for the channel's ID: InvalidArgument and no transport call
\* for a nil or empty ID, otherwise the same transport call (id, clamped first,
\* after) and the same outcome.
C9_ChannelDelegation ==
    /\ inv.op = "GetModsForChannel" =>
          /\ calls = GetModsForUser([ID |-> inv.id], inv.opts, resp).calls
          /\ Over => ret = GetModsForUser([ID |-> inv.id], inv.opts, resp)
          /\ IF EmptyID(inv.id)
             THEN Rejected("nil", ErrInvalidArgument)
             ELSE calls = <<TransportCall("query", "GQLModsQuery",
                                          SubjectVars(inv.id, inv.opts))>>
    /\ inv.op = "GetVIPsForChannel" =>
          /\ calls = GetVIPsForUser([ID |-> inv.id], inv.opts, resp).calls
          /\ Over => ret = GetVIPsForUser([ID |-> inv.id], inv.opts, resp)
          /\ IF EmptyID(inv.id)
             THEN Rejected("nil", ErrInvalidArgument)
             ELSE calls = <<TransportCall("query", "GQLVIPsQuery",
                                          SubjectVars(inv.id, inv.opts))>>

C9_Witness ==
    /\ inv.op = "GetVIPsForChannel"
    /\ inv.opts.First = 0
    /\ pc = "returned"
    /\ Len(calls) = 1
    /\ calls[1].vars.first = 25
    /\ ret.result = "page"

\* C10: the moderator and VIP queries read the connection of the payload with
\* no nil check: with a nil outer payload they do not return nil and the
\* transport's error but dereference the nil payload; with a payload they
\* return its connection and the transport's error.
C10_UncheckedPayload ==
    (inv.op \in ModVipOps /\ Over /\ calls # <<>>) =>
        IF resp.data = "nil"
        THEN pc = "panicked" /\ ret = Panicked(calls)
        ELSE pc = "returned" /\ ret = Returned(calls, resp.nested, resp.err)

C10_Witness ==
    /\ inv.op = "GetModsForChannel"
    /\ pc = "panicked"
    /\ resp = Response("ErrNetwork", "nil", "nil")
====
